---- MODULE Spec2Model ----
(***************************************************************************)
(* The authenticated HTTP client core of package k8sclusterv1:             *)
(* clusterClient.sendRequest, the dispatch routine behind get, put, post,  *)
(* patch and delete.  One call is followed step by step: the Before hook,  *)
(* the first restClient.Do, the token refresh on 401, the single retried   *)
(* restClient.Do and the OnError hook.  The transport, the token refresher *)
(* and the two hooks are collaborators supplied from outside; their        *)
(* answers are chosen nondeterministically from the small sets below.      *)
(***************************************************************************)
EXTENDS Integers, Sequences, FiniteSets, TLC

\* Number of sendRequest calls made, one after the other, on one client.
MaxCalls == 2

\* Hosts a request URL can name (resp.Request.URL.Host).
Hosts == {"h1", "h2"}

\* Bodies a non-2xx response can carry (the failure's description).
Bodies == {"b1", "b2"}

\* Status codes the transport answers with.
SuccessStatuses == {200}
FailureStatuses == {401, 500}
RedirectStatuses == {302}

\* Longest relative path handed to a primitive, in characters.
MaxPathLen == 6

\* Characters a path is made of: the separator, the dot and a name character.
PathChars == {"/", ".", "a"}

\* Most routing-header arguments handed to one primitive call.
MaxHeaders == 2

\* Values the fields of a routing header can hold.
Ids == {"x", "y"}

\* Most primitive calls made on one constructed client.
MaxPrimitiveCalls == 2

\* Bearer tokens a configuration can hold.
Tokens == {"t1", "t2"}

\* The endpoint locator objects a configuration can point to.
Locators == {"L1", "L2"}

\* Paths handed to the primitives of a constructed client.
ClientPaths == {<<>>, <<"a">>}

\* Concurrent sendRequest calls that share one client.
MaxConcurrent == 3

\* Base URLs the resolver can answer with, as character sequences.
BaseURLs == {<<"u">>, <<"v", "/">>}

-----------------------------------------------------------------------------
(* Values *)

\* error values: every error is a record of the same shape
NoErr == [kind |-> "nil", status |-> 0, desc |-> ""]

\* bmxerror.NewRequestFailure(code, description, statusCode): what the code
\* reads back are StatusCode() and Description()
RequestFailure(code, description, statusCode) ==
    [kind |-> "RequestFailure", status |-> statusCode, desc |-> description]

\* a network-level failure as the transport reports it (timeout, dial, ...)
TransportError == [kind |-> "TransportError", status |-> 0, desc |-> "timeout"]

\* the structured network-error kind that carries the target host
NetworkError(host) == [kind |-> "NetworkError", status |-> 0, desc |-> host]

\* bmxerror.WrapNetworkErrors(host, err): a network-level failure becomes
\* the structured network error for that host, any other error is kept
WrapNetworkErrors(host, e) ==
    IF e.kind = "TransportError" THEN NetworkError(host) ELSE e

\* the error a failing Before hook returns
BeforeError == [kind |-> "BeforeError", status |-> 0, desc |-> "before"]

\* the errors RefreshToken can return: nil, *bmxerror.InvalidTokenError, other
InvalidTokenError == [kind |-> "InvalidTokenError", status |-> 0, desc |-> "invalid token"]
OtherRefreshError == [kind |-> "RefreshError", status |-> 0, desc |-> "uaa down"]
RefreshResults == {NoErr, InvalidTokenError, OtherRefreshError}

\* responses: the nil pointer, new(gohttp.Response), a response of the transport
NilResp == [ptr |-> "nil", StatusCode |-> 0, host |-> ""]
ZeroResp == [ptr |-> "new", StatusCode |-> 0, host |-> ""]
Resp(s, h) == [ptr |-> "transport", StatusCode |-> s, host |-> h]

\* What restClient.Do(r, respV, nil) can answer for a request to host h:
\* no response with a network failure; a 2xx response; a non-2xx response
\* with the structured failure of its status and body; a response together
\* with a network-level failure (a refused redirect).
DoOutcomes(h) ==
    {[resp |-> NilResp, err |-> TransportError]}
    \cup {[resp |-> Resp(s, h), err |-> NoErr] : s \in SuccessStatuses}
    \cup {[resp |-> Resp(s, h), err |-> RequestFailure("ServerErrorResponse", b, s)] :
              s \in FailureStatuses, b \in Bodies}
    \cup {[resp |-> Resp(s, h), err |-> TransportError] : s \in RedirectStatuses}

\* the client's optional collaborators
RefresherKinds == {"nil", "set"}
BeforeKinds == {"nil", "pass", "fail"}
OnErrorKinds == {"nil", "translate", "swallow"}

\* c.Before(r): the hook's answer
BeforeResult(hook) == IF hook = "fail" THEN BeforeError ELSE NoErr

\* c.OnError(statusCode, rawResponse): a hook that translates the failure
\* into an error of its own, or one that returns nil
OnErrorResult(hook, statusCode, rawResponse) ==
    IF hook = "translate"
    THEN [kind |-> "HookError", status |-> statusCode, desc |-> rawResponse]
    ELSE NoErr

-----------------------------------------------------------------------------
VARIABLES
    IAMTokenRefresher,  \* client field: "nil" or "set"
    Before,             \* client field: the Before hook
    OnError,            \* client field: the OnError hook
    pc,                 \* position of the current sendRequest call
    r,                  \* the request of the current call
    resp,               \* local resp
    err,                \* local err
    ret,                \* the pair the call returned
    attempts,           \* answers of restClient.Do in this call, in order
    refreshes,          \* answers of RefreshToken in this call, in order
    beforeCalls,        \* invocations of the Before hook in this call
    onErrorArgs,        \* arguments of the OnError invocations in this call
    calls               \* sendRequest calls started so far

vars == <<IAMTokenRefresher, Before, OnError, pc, r, resp, err, ret,
          attempts, refreshes, beforeCalls, onErrorArgs, calls>>

client == <<IAMTokenRefresher, Before, OnError>>

\* url(path): the path-resolution step of a primitive
VARIABLES
    BaseURL,            \* client field: the URL getter (NoGetter when nil)
    path,               \* the path handed to the primitive
    reqURL,             \* the URL of the request built from it
    upc                 \* "input" before url(path), "built" after

urlVars == <<BaseURL, path, reqURL, upc>>

\* the header-attachment loop of a primitive
VARIABLES
    targetHeader,       \* the routing-header arguments of the call
    next,               \* index of the next argument to attach
    reqHeader,          \* the request's header set: <<name, value>> pairs
    hpc                 \* "attach", then "sent" or "panic"

hdrVars == <<targetHeader, next, reqHeader, hpc>>

\* the header-attachment loop is not running
HdrIdle ==
    /\ targetHeader = <<>>
    /\ next = 1
    /\ reqHeader = {}
    /\ hpc = "idle"

\* NewClient and the client it returns
VARIABLES
    configs,            \* the Config objects: the session's and the client's copy
    locators,           \* what each endpoint locator answers at present
    newClient,          \* what NewClient returned: [client, err]
    npc,                \* "new" before NewClient, "returned" after
    consults,           \* ContainerEndpoint() invocations so far
    atNew,              \* the locator's answer and the config NewClient saw
    lastURL,            \* [path, url, answer] of the latest primitive call
    primitives          \* primitive calls made so far

newVars == <<configs, locators, newClient, npc, consults, atNew, lastURL, primitives>>

\* NewClient is not being followed
NewIdle ==
    /\ configs = <<>>
    /\ locators = <<>>
    /\ newClient = "none"
    /\ npc = "idle"
    /\ consults = 0
    /\ atNew = "none"
    /\ lastURL = "none"
    /\ primitives = 0

\* concurrent calls on one client, and the bearer token each one sends
VARIABLES
    cfgToken,           \* c.config's bearer token (tokens are numbered as issued)
    issued,             \* tokens issued so far
    tpc,                \* position of each call
    defaultHeader,      \* bearer token in each call's restClient.DefaultHeader
    rejected,           \* token each call's first attempt was refused with (0: none)
    refreshedTo,        \* token each call's RefreshToken obtained (0: none)
    retried             \* token each call's retried attempt was sent with (0: none)

tokVars == <<cfgToken, issued, tpc, defaultHeader, rejected, refreshedTo, retried>>

\* no concurrent calls are being followed
TokIdle ==
    /\ cfgToken = 0
    /\ issued = 0
    /\ tpc = <<>>
    /\ defaultHeader = <<>>
    /\ rejected = <<>>
    /\ refreshedTo = <<>>
    /\ retried = <<>>

\* the variables sendRequest leaves alone
otherVars == <<urlVars, hdrVars, newVars, tokVars>>

\* the path-resolution step is not running
UrlIdle ==
    /\ BaseURL = [set |-> FALSE, ep |-> <<>>]
    /\ path = <<>>
    /\ reqURL = <<>>
    /\ upc = "idle"

NoRet == [resp |-> NilResp, err |-> NoErr]

Init ==
    /\ IAMTokenRefresher \in RefresherKinds
    /\ Before \in BeforeKinds
    /\ OnError \in OnErrorKinds
    /\ pc = "idle"
    /\ r = [host |-> ""]
    /\ resp = NilResp
    /\ err = NoErr
    /\ ret = NoRet
    /\ attempts = <<>>
    /\ refreshes = <<>>
    /\ beforeCalls = 0
    /\ onErrorArgs = <<>>
    /\ calls = 0
    /\ UrlIdle
    /\ HdrIdle
    /\ NewIdle
    /\ TokIdle

-----------------------------------------------------------------------------
(* sendRequest *)

BeforeAborts_ignored(e) == FALSE

\* line 120: if err != nil
BeforeAborts(e) == e # NoErr

NilResponseReturn_dropsError(e) == [resp |-> ZeroResp, err |-> NoErr]

\* lines 129-131: return new(gohttp.Response), err
NilResponseReturn(e) == [resp |-> ZeroResp, err |-> e]

ShouldRefresh_anyClientError(rsp, refresher) ==
    rsp.StatusCode >= 400 /\ refresher # "nil"

\* line 138: resp.StatusCode == 401 && c.IAMTokenRefresher != nil
ShouldRefresh(rsp, refresher) ==
    rsp.StatusCode = 401 /\ refresher # "nil"

RefreshBranch_invalidRetries(uaaErr) ==
    IF uaaErr = NoErr \/ uaaErr.kind = "InvalidTokenError" THEN "retry" ELSE "default"

RefreshBranch_otherRetries(uaaErr) ==
    IF uaaErr.kind = "InvalidTokenError" THEN "invalidToken" ELSE "retry"

\* lines 141-147: switch uaaErr.(type)
RefreshBranch(uaaErr) ==
    IF uaaErr = NoErr THEN "retry"
    ELSE IF uaaErr.kind = "InvalidTokenError" THEN "invalidToken"
    ELSE "default"

\* line 146: bmxerror.NewRequestFailure("InvalidToken", fmt.Sprintf("%v", uaaErr), 401)
InvalidTokenFailure(uaaErr) == RequestFailure("InvalidToken", uaaErr.desc, 401)

\* line 148: fmt.Errorf("Authentication failed, Unable to refresh auth token: %v. Try again later", uaaErr)
RefreshFailedError(uaaErr) ==
    [kind |-> "errorString", status |-> 0, desc |-> uaaErr.desc]

OnErrorApplies_serverOnly(e, hook) ==
    e.kind = "RequestFailure" /\ e.status >= 500 /\ hook # "nil"

\* line 152: errResp, ok := err.(bmxerror.RequestFailure); ok && c.OnError != nil
OnErrorApplies(e, hook) == e.kind = "RequestFailure" /\ hook # "nil"

\* lines 107-123: a call starts, builds its rest client and runs the Before
\* hook; a failing hook ends the call at once
SendRequestBegin ==
    /\ pc \in {"idle", "returned"}
    /\ calls < MaxCalls
    /\ calls' = calls + 1
    /\ \E h \in Hosts : r' = [host |-> h]
    /\ attempts' = <<>>
    /\ refreshes' = <<>>
    /\ onErrorArgs' = <<>>
    /\ resp' = NilResp
    /\ err' = NoErr
    /\ IF Before # "nil"
       THEN /\ beforeCalls' = 1
            /\ IF BeforeAborts(BeforeResult(Before))
               THEN /\ ret' = [resp |-> ZeroResp, err |-> BeforeResult(Before)]
                    /\ pc' = "returned"
               ELSE /\ ret' = NoRet
                    /\ pc' = "do"
       ELSE /\ beforeCalls' = 0
            /\ ret' = NoRet
            /\ pc' = "do"
    /\ UNCHANGED client
    /\ UNCHANGED otherVars

\* lines 125-138: the first restClient.Do, the nil-response return, the
\* wrapping of the error and the choice of the token-refresh branch
FirstAttempt ==
    /\ pc = "do"
    /\ \E o \in DoOutcomes(r.host) :
        /\ attempts' = Append(attempts, o)
        /\ IF o.resp = NilResp
           THEN /\ ret' = NilResponseReturn(o.err)
                /\ pc' = "returned"
                /\ UNCHANGED <<resp, err>>
           ELSE /\ resp' = o.resp
                /\ err' = IF o.err # NoErr
                          THEN WrapNetworkErrors(o.resp.host, o.err)
                          ELSE o.err
                /\ pc' = IF ShouldRefresh(o.resp, IAMTokenRefresher)
                         THEN "refresh" ELSE "onError"
                /\ UNCHANGED ret
    /\ UNCHANGED <<client, r, refreshes, beforeCalls, onErrorArgs, calls>>
    /\ UNCHANGED otherVars

RefreshToken_hooksInvalidToken ==
    /\ pc = "refresh"
    /\ \E uaaErr \in RefreshResults :
        /\ refreshes' = Append(refreshes, uaaErr)
        /\ CASE RefreshBranch(uaaErr) = "retry" ->
                    /\ pc' = "retry"
                    /\ UNCHANGED <<ret, err>>
             [] RefreshBranch(uaaErr) = "invalidToken" ->
                    /\ err' = InvalidTokenFailure(uaaErr)
                    /\ pc' = "onError"
                    /\ UNCHANGED ret
             [] OTHER ->
                    /\ ret' = [resp |-> resp, err |-> RefreshFailedError(uaaErr)]
                    /\ pc' = "returned"
                    /\ UNCHANGED err
    /\ UNCHANGED <<client, r, resp, attempts, beforeCalls, onErrorArgs, calls>>
    /\ UNCHANGED otherVars

\* lines 140-149: RefreshToken and the switch on its error
RefreshToken ==
    /\ pc = "refresh"
    /\ \E uaaErr \in RefreshResults :
        /\ refreshes' = Append(refreshes, uaaErr)
        /\ CASE RefreshBranch(uaaErr) = "retry" ->
                    /\ pc' = "retry"
                    /\ UNCHANGED ret
             [] RefreshBranch(uaaErr) = "invalidToken" ->
                    /\ ret' = [resp |-> resp, err |-> InvalidTokenFailure(uaaErr)]
                    /\ pc' = "returned"
             [] OTHER ->
                    /\ ret' = [resp |-> resp, err |-> RefreshFailedError(uaaErr)]
                    /\ pc' = "returned"
    /\ UNCHANGED <<client, r, resp, err, attempts, beforeCalls, onErrorArgs, calls>>
    /\ UNCHANGED otherVars

Retry_keepsError ==
    /\ pc = "retry"
    /\ \E o \in DoOutcomes(r.host) :
        /\ attempts' = Append(attempts, o)
        /\ resp' = o.resp
    /\ pc' = "onError"
    /\ UNCHANGED <<client, r, err, ret, refreshes, beforeCalls, onErrorArgs, calls>>
    /\ UNCHANGED otherVars

Retry_rerunsBefore ==
    /\ pc = "retry"
    /\ \E o \in DoOutcomes(r.host) :
        /\ attempts' = Append(attempts, o)
        /\ resp' = o.resp
        /\ err' = o.err
    /\ beforeCalls' = IF Before # "nil" THEN beforeCalls + 1 ELSE beforeCalls
    /\ pc' = "onError"
    /\ UNCHANGED <<client, r, ret, refreshes, onErrorArgs, calls>>
    /\ UNCHANGED otherVars

Retry_again ==
    /\ pc = "retry"
    /\ \E o \in DoOutcomes(r.host) :
        /\ attempts' = Append(attempts, o)
        /\ resp' = o.resp
        /\ err' = o.err
        /\ pc' = IF ShouldRefresh(o.resp, IAMTokenRefresher) THEN "refresh" ELSE "onError"
    /\ UNCHANGED <<client, r, ret, refreshes, beforeCalls, onErrorArgs, calls>>
    /\ UNCHANGED otherVars

\* lines 143-144: the default headers are rebuilt and the request is sent
\* again; resp and err are both overwritten by the answer
Retry ==
    /\ pc = "retry"
    /\ \E o \in DoOutcomes(r.host) :
        /\ attempts' = Append(attempts, o)
        /\ resp' = o.resp
        /\ err' = o.err
    /\ pc' = "onError"
    /\ UNCHANGED <<client, r, ret, refreshes, beforeCalls, onErrorArgs, calls>>
    /\ UNCHANGED otherVars

\* lines 152-156: the OnError hook translates a structured failure; return
Finish ==
    /\ pc = "onError"
    /\ IF OnErrorApplies(err, OnError)
       THEN /\ onErrorArgs' = Append(onErrorArgs, <<err.status, err.desc>>)
            /\ ret' = [resp |-> resp,
                       err |-> OnErrorResult(OnError, err.status, err.desc)]
       ELSE /\ onErrorArgs' = onErrorArgs
            /\ ret' = [resp |-> resp, err |-> err]
    /\ pc' = "returned"
    /\ UNCHANGED <<client, r, resp, err, attempts, refreshes, beforeCalls, calls>>
    /\ UNCHANGED otherVars

Next ==
    \/ SendRequestBegin
    \/ FirstAttempt
    \/ RefreshToken
    \/ Retry
    \/ Finish

Spec == Init /\ [][Next]_vars

-----------------------------------------------------------------------------
(* Shorthands over one call *)

Returned == pc = "returned"
NumAttempts == Len(attempts)
NumRefreshes == Len(refreshes)
LastAttempt == attempts[Len(attempts)]
RefreshFailed == NumRefreshes >= 1 /\ refreshes[NumRefreshes] # NoErr
BeforeFailed == Before = "fail"

-----------------------------------------------------------------------------
(* Token refresh and retry *)

FirstWas401 == NumAttempts >= 1 /\ attempts[1].resp.StatusCode = 401

\* C1: when the first attempt answers 401, RefreshToken succeeds and the
\* retried attempt answers 200, the call returns that 200 response with a nil
\* error after exactly one RefreshToken and exactly two HTTP attempts.
C1_RefreshThenSuccess ==
    (/\ Returned
     /\ FirstWas401
     /\ NumRefreshes >= 1 /\ refreshes[1] = NoErr
     /\ NumAttempts >= 2 /\ attempts[2].resp.StatusCode = 200)
    => /\ ret.resp = attempts[2].resp
       /\ ret.resp.StatusCode = 200
       /\ ret.err = NoErr
       /\ NumRefreshes = 1
       /\ NumAttempts = 2

C1_Witness ==
    /\ Returned
    /\ FirstWas401
    /\ NumRefreshes = 1 /\ refreshes[1] = NoErr
    /\ NumAttempts = 2 /\ attempts[2].resp.StatusCode = 200

\* C2: in every state of a call at most two HTTP attempts and at most one
\* RefreshToken have been made, and after the second attempt the call can
\* only finish: a second 401 leads to no second refresh and no third attempt.
C2_AtMostOneRetry ==
    /\ NumAttempts <= 2
    /\ NumRefreshes <= 1
    /\ NumAttempts = 2 => pc \in {"onError", "returned"}
    /\ NumAttempts = 2 => NumRefreshes = 1

C2_Witness ==
    /\ Returned
    /\ NumAttempts = 2
    /\ attempts[2].resp.StatusCode = 401
    /\ NumRefreshes = 1

\* C3: when the first attempt answers 401 and RefreshToken fails with the
\* invalid-token error, the call has returned, at once, a structured request
\* failure of status 401 and no second HTTP attempt was made.
C3_InvalidTokenShortCircuits ==
    (/\ FirstWas401
     /\ NumRefreshes >= 1 /\ refreshes[1].kind = "InvalidTokenError")
    => /\ Returned
       /\ ret.err.kind = "RequestFailure"
       /\ ret.err.status = 401
       /\ NumAttempts = 1
       /\ NumRefreshes = 1

C3_Witness ==
    /\ Returned
    /\ FirstWas401
    /\ NumRefreshes = 1 /\ refreshes[1].kind = "InvalidTokenError"

\* C4: when the first attempt answers 401 and RefreshToken fails with an
\* error that is not the invalid-token kind, the call has returned, at once,
\* the non-nil "unable to refresh auth token" error together with the
\* original 401 response, and no second HTTP attempt was made.
C4_OtherRefreshFailureShortCircuits ==
    (/\ FirstWas401
     /\ NumRefreshes >= 1
     /\ refreshes[1] # NoErr /\ refreshes[1].kind # "InvalidTokenError")
    => /\ Returned
       /\ ret.err = RefreshFailedError(refreshes[1])
       /\ ret.err # NoErr
       /\ ret.resp = attempts[1].resp
       /\ ret.resp.StatusCode = 401
       /\ NumAttempts = 1

C4_Witness ==
    /\ Returned
    /\ FirstWas401
    /\ NumRefreshes = 1 /\ refreshes[1] = OtherRefreshError

-----------------------------------------------------------------------------
(* The returned response *)

\* C5: every return of sendRequest carries a non-null response object, on
\* every path, the retried attempt after a successful refresh included.
C5_ResponseNeverNil == Returned => ret.resp # NilResp

\* C6: whenever the transport reports a network-level failure for a call,
\* with or without a response object, the returned response is the non-null
\* zero-value response and the returned error is the wrapped network error
\* carrying the target host.
C6_NetworkFailureWrapped ==
    (/\ Returned
     /\ NumAttempts >= 1 /\ LastAttempt.err = TransportError)
    => /\ ret.resp = ZeroResp
       /\ ret.err = NetworkError(r.host)

\* C7: with a Before hook that returns an error, a started call has returned
\* the zero-value response together with exactly the hook's error, after one
\* hook invocation, no HTTP attempt and no RefreshToken.
C7_BeforeFailureAborts ==
    (Before = "fail" /\ pc # "idle")
    => /\ Returned
       /\ ret = [resp |-> ZeroResp, err |-> BeforeError]
       /\ beforeCalls = 1
       /\ NumAttempts = 0
       /\ NumRefreshes = 0

C7_Witness == Before = "fail" /\ Returned /\ calls >= 1

-----------------------------------------------------------------------------
(* The returned error *)

LastFailedStructured == NumAttempts >= 1 /\ LastAttempt.err.kind = "RequestFailure"

\* what the OnError hook is handed for the failure of the last attempt
LastFailureArgs == <<LastAttempt.err.status, LastAttempt.err.desc>>

HookTranslatedLastFailure ==
    IF OnError # "nil"
    THEN /\ onErrorArgs = <<LastFailureArgs>>
         /\ ret.err = OnErrorResult(OnError, LastAttempt.err.status, LastAttempt.err.desc)
    ELSE /\ onErrorArgs = <<>>
         /\ ret.err = LastAttempt.err

\* C8 as stated: whenever the last HTTP attempt of a call ends in a
\* structured request failure, a registered OnError hook is called with that
\* failure's status and description and its return value is the returned
\* error; with no hook the structured failure is returned unchanged.
C8_Original ==
    (Returned /\ LastFailedStructured) => HookTranslatedLastFailure

\* C8, amended: the same, for every call that did not end in a failed token
\* refresh (a failed RefreshToken returns its own error and the hook is not
\* called).
C8_HookTranslatesFinalFailure ==
    (Returned /\ LastFailedStructured /\ ~RefreshFailed) => HookTranslatedLastFailure

C8_Witness ==
    /\ Returned
    /\ NumAttempts = 2
    /\ LastFailedStructured
    /\ attempts[1].err.desc # attempts[2].err.desc
    /\ attempts[2].resp.StatusCode = 401
    /\ OnError = "translate"
    /\ ret.err.kind = "HookError"

\* a failure was reported to the call: by the Before hook, by the transport,
\* by the refresher or by the final HTTP attempt
FailureReported ==
    \/ BeforeFailed /\ beforeCalls = 1
    \/ \E i \in 1..NumAttempts : attempts[i].err = TransportError
    \/ RefreshFailed
    \/ NumAttempts >= 1 /\ LastAttempt.err # NoErr

\* the OnError hook was handed the failure and answered nil
HookReturnedNil == onErrorArgs # <<>> /\ OnError = "swallow"

\* C9 as stated: in every call where a failure was reported the returned
\* error is non-nil, for every registered OnError hook.
C9_Original ==
    (Returned /\ FailureReported) => ret.err # NoErr

\* a failure that ends the call: of the Before hook, of the refresher, or of
\* the last HTTP attempt made (a network-level or a structured failure)
FinalFailureReported ==
    \/ BeforeFailed /\ beforeCalls = 1
    \/ RefreshFailed
    \/ NumAttempts >= 1 /\ LastAttempt.err # NoErr

\* C9, amended: in every call where the Before hook, the refresher or the
\* last HTTP attempt reported a failure the returned error is non-nil, unless
\* the OnError hook was handed the last attempt's structured failure and
\* returned nil.
C9_ErrorNotDiscarded ==
    (Returned /\ FinalFailureReported) => (ret.err # NoErr \/ HookReturnedNil)

C9_Witness ==
    /\ Returned
    /\ NumAttempts = 1
    /\ attempts[1].resp = NilResp
    /\ OnError = "swallow"
    /\ ret.err # NoErr

FirstAnswered == NumAttempts >= 1 /\ attempts[1].resp # NilResp
FirstWas2xx ==
    FirstAnswered /\ attempts[1].resp.StatusCode >= 200 /\ attempts[1].resp.StatusCode <= 299

\* RefreshToken or a second attempt happens only after a 401 with a refresher
RefreshOnlyOn401 ==
    (NumRefreshes >= 1 \/ NumAttempts >= 2)
    => (FirstWas401 /\ IAMTokenRefresher # "nil")

\* a first response that is neither 2xx nor a 401 with a refresher configured
FirstFailedWithoutRefresh ==
    /\ FirstAnswered
    /\ ~FirstWas2xx
    /\ ~(FirstWas401 /\ IAMTokenRefresher # "nil")

SuccessYieldsNil ==
    (Returned /\ FirstWas2xx) => (NumAttempts = 1 /\ ret.err = NoErr)

\* C10 as stated: refresh and retry only after a 401 with a refresher; any
\* other non-2xx status, or a 401 with no refresher, makes exactly one attempt
\* and returns a non-nil error; a 2xx response returns a nil error.
C10_Original ==
    /\ RefreshOnlyOn401
    /\ (Returned /\ FirstFailedWithoutRefresh)
       => (NumAttempts = 1 /\ NumRefreshes = 0 /\ ret.err # NoErr)
    /\ SuccessYieldsNil

\* C10, amended: the same, the returned error being non-nil unless a
\* registered OnError hook was handed the failure and returned nil.
C10_RefreshOnlyOn401 ==
    /\ RefreshOnlyOn401
    /\ (Returned /\ FirstFailedWithoutRefresh)
       => (NumAttempts = 1 /\ NumRefreshes = 0 /\ (ret.err # NoErr \/ HookReturnedNil))
    /\ SuccessYieldsNil

C10_Witness ==
    /\ Returned
    /\ FirstAnswered
    /\ attempts[1].resp.StatusCode = 500
    /\ IAMTokenRefresher = "set"
    /\ NumAttempts = 1
    /\ NumRefreshes = 0
    /\ ret.err.kind = "RequestFailure"

-----------------------------------------------------------------------------
(* The hooks *)

Started == pc # "idle"

\* C18: in every call with a registered Before hook the hook is invoked
\* exactly once, before the first HTTP attempt (it has run, and no attempt has
\* been made, when the first restClient.Do is about to be issued), and it is
\* not invoked again for the retried attempt after a successful refresh.
C18_BeforeExactlyOnce ==
    /\ (Before # "nil" /\ Started) => beforeCalls = 1
    /\ (Before # "nil" /\ pc = "do") => (beforeCalls = 1 /\ NumAttempts = 0)
    /\ (Before # "nil" /\ NumAttempts >= 1) => beforeCalls = 1
    /\ Before = "nil" => beforeCalls = 0

C18_Witness ==
    /\ Before = "pass"
    /\ Returned
    /\ NumAttempts = 2
    /\ NumRefreshes = 1 /\ refreshes[1] = NoErr
    /\ beforeCalls = 1

\* the call ended on a short-circuit path: the Before hook failed, the first
\* attempt brought no response, or the token refresh failed
ShortCircuited ==
    \/ BeforeFailed /\ Started
    \/ NumAttempts >= 1 /\ attempts[1].resp = NilResp
    \/ RefreshFailed

\* C19: the OnError hook is invoked at most once per call, only by the step
\* that returns after the last HTTP attempt, and never on a short-circuit
\* path: Before-hook failure, no response on the first attempt, or a failed
\* token refresh (the invalid-token failure is returned without the hook).
C19_OnErrorAtMostOnceAtEnd ==
    /\ Len(onErrorArgs) <= 1
    /\ onErrorArgs # <<>> =>
         /\ Returned
         /\ NumAttempts >= 1
         /\ onErrorArgs[1] = LastFailureArgs
         /\ ~ShortCircuited
    /\ (Returned /\ ShortCircuited) => onErrorArgs = <<>>

C19_Witness ==
    /\ Returned
    /\ OnError # "nil"
    /\ RefreshFailed
    /\ refreshes[1].kind = "InvalidTokenError"
    /\ ret.err.kind = "RequestFailure"
    /\ onErrorArgs = <<>>

-----------------------------------------------------------------------------
(* Path resolution: clusterClient.url and cleanPath *)

\* the sendRequest variables while no call is being followed
SendRequestIdle ==
    /\ IAMTokenRefresher = "set"
    /\ Before = "nil"
    /\ OnError = "nil"
    /\ pc = "idle"
    /\ r = [host |-> ""]
    /\ resp = NilResp
    /\ err = NoErr
    /\ ret = NoRet
    /\ attempts = <<>>
    /\ refreshes = <<>>
    /\ beforeCalls = 0
    /\ onErrorArgs = <<>>
    /\ calls = 0

\* strings are sequences of characters
Paths == UNION {[1..n -> PathChars] : n \in 0..MaxPathLen}

\* c.BaseURL: nil, or a getter answering ep
NoGetter == [set |-> FALSE, ep |-> <<>>]
Getter(ep) == [set |-> TRUE, ep |-> ep]

\* path.Clean, backing up over the last element written: out.w--, then
\* while out.w > dotdot && out.index(out.w) != '/' { out.w-- }
RECURSIVE CleanBacktrack(_, _, _)
CleanBacktrack(out, w, dotdot) ==
    IF w > dotdot /\ out[w + 1] # "/"
    THEN CleanBacktrack(out, w - 1, dotdot)
    ELSE SubSeq(out, 1, w)

\* first index at or after i that is past the end of p or holds a separator
RECURSIVE ElementEnd(_, _)
ElementEnd(p, i) ==
    IF i > Len(p) \/ p[i] = "/" THEN i ELSE ElementEnd(p, i + 1)

\* path.Clean, the scanning loop: i is the next character to read (from 1),
\* out the buffer written so far, dotdot the length out may not shrink below
RECURSIVE CleanLoop(_, _, _, _)
CleanLoop(p, i, out, dotdot) ==
    LET n == Len(p)
        rooted == p[1] = "/"
    IN  IF i > n THEN out
        ELSE IF p[i] = "/" THEN CleanLoop(p, i + 1, out, dotdot)
        ELSE IF p[i] = "." /\ (i = n \/ p[i + 1] = "/")
             THEN CleanLoop(p, i + 1, out, dotdot)
        ELSE IF p[i] = "." /\ p[i + 1] = "." /\ (i + 1 = n \/ p[i + 2] = "/")
             THEN IF Len(out) > dotdot
                  THEN CleanLoop(p, i + 2, CleanBacktrack(out, Len(out) - 1, dotdot), dotdot)
                  ELSE IF ~rooted
                  THEN LET o2 == (IF Len(out) > 0 THEN Append(out, "/") ELSE out)
                                 \o <<".", ".">>
                       IN  CleanLoop(p, i + 2, o2, Len(o2))
                  ELSE CleanLoop(p, i + 2, out, dotdot)
        ELSE LET o1 == IF (rooted /\ Len(out) # 1) \/ (~rooted /\ Len(out) # 0)
                       THEN Append(out, "/") ELSE out
                 j == ElementEnd(p, i)
             IN  CleanLoop(p, j, o1 \o SubSeq(p, i, j - 1), dotdot)

\* path.Clean(p)
Clean(p) ==
    IF p = <<>> THEN <<".">>
    ELSE LET rooted == p[1] = "/"
             res == CleanLoop(p, IF rooted THEN 2 ELSE 1,
                              IF rooted THEN <<"/">> ELSE <<>>,
                              IF rooted THEN 1 ELSE 0)
         IN  IF res = <<>> THEN <<".">> ELSE res

cleanPath_noLeadingSlash(p) ==
    IF p = <<>> THEN <<"/">> ELSE Clean(p)

\* lines 207-215: cleanPath
cleanPath(p) ==
    IF p = <<>> THEN <<"/">>
    ELSE Clean(IF Head(p) # "/" THEN <<"/">> \o p ELSE p)

\* lines 199-205: clusterClient.url
url(getter, p) ==
    IF ~getter.set THEN p ELSE getter.ep \o cleanPath(p)

InitUrl ==
    /\ SendRequestIdle
    /\ BaseURL \in {NoGetter} \cup {Getter(ep) : ep \in BaseURLs}
    /\ path \in Paths
    /\ reqURL = <<>>
    /\ upc = "input"
    /\ HdrIdle
    /\ NewIdle
    /\ TokIdle

\* lines 160, 168, 176, 184, 192: a primitive builds its request from c.url(path)
BuildURL ==
    /\ upc = "input"
    /\ reqURL' = url(BaseURL, path)
    /\ upc' = "built"
    /\ UNCHANGED <<BaseURL, path>>
    /\ UNCHANGED <<vars, hdrVars, newVars, tokVars>>

NextUrl == BuildURL

SpecUrl == InitUrl /\ [][NextUrl]_<<vars, otherVars>>

\* the elements of a path: its maximal runs of characters other than "/"
RECURSIVE Elements(_)
Elements(p) ==
    IF p = <<>> THEN <<>>
    ELSE IF Head(p) = "/" THEN Elements(Tail(p))
    ELSE LET j == ElementEnd(p, 1)
         IN  <<SubSeq(p, 1, j - 1)>> \o Elements(SubSeq(p, j, Len(p)))

\* the elements left of a rooted path: "." is dropped, ".." removes the
\* element before it (or nothing, at the root)
RECURSIVE Collapse(_, _)
Collapse(elems, kept) ==
    IF elems = <<>> THEN kept
    ELSE IF Head(elems) = <<".">> THEN Collapse(Tail(elems), kept)
    ELSE IF Head(elems) = <<".", ".">>
         THEN Collapse(Tail(elems),
                       IF kept = <<>> THEN kept ELSE SubSeq(kept, 1, Len(kept) - 1))
    ELSE Collapse(Tail(elems), Append(kept, Head(elems)))

RECURSIVE JoinRooted(_)
JoinRooted(elems) ==
    IF elems = <<>> THEN <<>>
    ELSE <<"/">> \o Head(elems) \o JoinRooted(Tail(elems))

\* the normalized path, stated from the elements
Normalized(p) ==
    LET kept == Collapse(Elements(p), <<>>)
    IN  IF kept = <<>> THEN <<"/">> ELSE JoinRooted(kept)

\* a normalized absolute path: leading slash, no empty, "." or ".." element,
\* no trailing slash but for the root itself
IsNormalForm(n) ==
    /\ n # <<>>
    /\ n[1] = "/"
    /\ n = JoinRooted(Elements(n)) \/ n = <<"/">>
    /\ \A i \in 1..Len(Elements(n)) :
          Elements(n)[i] \notin {<<".">>, <<".", ".">>}

\* the part of the request URL after the base URL
UrlPath == SubSeq(reqURL, Len(BaseURL.ep) + 1, Len(reqURL))

\* C12: with a base-URL getter, the request URL of a primitive is the
\* resolved base URL followed by the normalized path: "/" for the empty path,
\* a leading slash supplied when missing, ".", ".." and repeated separators
\* collapsed; the normalized path always starts with "/".
C12_UrlIsBasePlusNormalizedPath ==
    (upc = "built" /\ BaseURL.set)
    => /\ Len(reqURL) > Len(BaseURL.ep)
       /\ SubSeq(reqURL, 1, Len(BaseURL.ep)) = BaseURL.ep
       /\ UrlPath = Normalized(path)
       /\ UrlPath[1] = "/"
       /\ IsNormalForm(UrlPath)
       /\ path = <<>> => UrlPath = <<"/">>
       /\ (path # <<>> /\ path[1] # "/") => UrlPath = Normalized(<<"/">> \o path)

C12_Witness ==
    /\ upc = "built"
    /\ BaseURL = Getter(<<"u">>)
    /\ path = <<"a", "/", ".", ".", "/", "a">>
    /\ reqURL = <<"u", "/", "a">>

-----------------------------------------------------------------------------
(* Header projection: addToRequestHeader and the loop of the primitives *)

\* lines 217-224
orgIDHeader == "X-Auth-Resource-Org"
spaceIDHeader == "X-Auth-Resource-Space"
accountIDHeader == "X-Auth-Resource-Account"
slUserNameHeader == "X-Auth-Softlayer-Username"
slAPIKeyHeader == "X-Auth-Softlayer-APIKey"

\* an interface{} value: its dynamic type, whether it is a nil pointer, and
\* the fields of the header it holds or points to
HeaderValue(type, isNil, f1, f2, f3) ==
    [type |-> type, isNil |-> isNil, f1 |-> f1, f2 |-> f2, f3 |-> f3]

\* &ClusterTargetHeader{OrgID, SpaceID, AccountID}
TargetHeaders ==
    {HeaderValue("*ClusterTargetHeader", FALSE, o, sp, a) : o \in Ids, sp \in Ids, a \in Ids}

\* &ClusterSoftlayerHeader{SoftLayerUsername, SoftLayerAPIKey}
SoftlayerHeaders ==
    {HeaderValue("*ClusterSoftlayerHeader", FALSE, u, k, "") : u \in Ids, k \in Ids}

\* (*ClusterTargetHeader)(nil) and (*ClusterSoftlayerHeader)(nil)
NilTargetHeader == HeaderValue("*ClusterTargetHeader", TRUE, "", "", "")
NilSoftlayerHeader == HeaderValue("*ClusterSoftlayerHeader", TRUE, "", "", "")

\* values of a type the switch has no case for: a ClusterTargetHeader passed
\* by value, a string, the nil interface
UnrecognizedHeaders ==
    {HeaderValue("ClusterTargetHeader", FALSE, "x", "y", "x"),
     HeaderValue("string", FALSE, "x", "", ""),
     HeaderValue("nil", FALSE, "", "", "")}

HeaderValues ==
    TargetHeaders \cup SoftlayerHeaders \cup {NilTargetHeader, NilSoftlayerHeader}
    \cup UnrecognizedHeaders

\* r.Set(key, value): the header named key now holds value alone
Set(hdr, key, value) == {kv \in hdr : kv[1] # key} \cup {<<key, value>>}

Attached(hdr) == [panic |-> FALSE, header |-> hdr]
NilDereference(hdr) == [panic |-> TRUE, header |-> hdr]

addToRequestHeader_swapsOrgAndSpace(h, hdr) ==
    IF h.type = "*ClusterTargetHeader"
    THEN IF h.isNil THEN NilDereference(hdr)
         ELSE Attached(Set(Set(Set(hdr, orgIDHeader, h.f2), spaceIDHeader, h.f1),
                           accountIDHeader, h.f3))
    ELSE IF h.type = "*ClusterSoftlayerHeader"
    THEN IF h.isNil THEN NilDereference(hdr)
         ELSE Attached(Set(Set(hdr, slUserNameHeader, h.f1), slAPIKeyHeader, h.f2))
    ELSE Attached(hdr)

addToRequestHeader_acceptsValueType(h, hdr) ==
    IF h.type \in {"*ClusterTargetHeader", "ClusterTargetHeader"}
    THEN IF h.isNil THEN NilDereference(hdr)
         ELSE Attached(Set(Set(Set(hdr, orgIDHeader, h.f1), spaceIDHeader, h.f2),
                           accountIDHeader, h.f3))
    ELSE IF h.type = "*ClusterSoftlayerHeader"
    THEN IF h.isNil THEN NilDereference(hdr)
         ELSE Attached(Set(Set(hdr, slUserNameHeader, h.f1), slAPIKeyHeader, h.f2))
    ELSE Attached(hdr)

\* lines 226-238: addToRequestHeader.  The type switch takes a nil pointer of
\* a listed type into that type's case, where reading a field of v panics
\* before any header is set; a value of any other type matches no case.
addToRequestHeader(h, hdr) ==
    IF h.type = "*ClusterTargetHeader"
    THEN IF h.isNil THEN NilDereference(hdr)
         ELSE Attached(Set(Set(Set(hdr, orgIDHeader, h.f1), spaceIDHeader, h.f2),
                           accountIDHeader, h.f3))
    ELSE IF h.type = "*ClusterSoftlayerHeader"
    THEN IF h.isNil THEN NilDereference(hdr)
         ELSE Attached(Set(Set(hdr, slUserNameHeader, h.f1), slAPIKeyHeader, h.f2))
    ELSE Attached(hdr)

HeaderLists == UNION {[1..n -> HeaderValues] : n \in 0..MaxHeaders}

InitHdr ==
    /\ SendRequestIdle
    /\ UrlIdle
    /\ NewIdle
    /\ TokIdle
    /\ targetHeader \in HeaderLists
    /\ next = 1
    /\ reqHeader = {}
    /\ hpc = "attach"

\* lines 161-163 (and 169-171, 177-179, 185-187, 193-195): one turn of
\* for _, t := range targetHeader { addToRequestHeader(t, r) }
AttachHeader ==
    /\ hpc = "attach"
    /\ next <= Len(targetHeader)
    /\ LET res == addToRequestHeader(targetHeader[next], reqHeader)
       IN  /\ reqHeader' = res.header
           /\ hpc' = IF res.panic THEN "panic" ELSE "attach"
    /\ next' = next + 1
    /\ UNCHANGED targetHeader
    /\ UNCHANGED <<vars, urlVars, newVars, tokVars>>

\* lines 164, 172, 180, 188, 196: return c.sendRequest(r, respV)
Dispatch ==
    /\ hpc = "attach"
    /\ next > Len(targetHeader)
    /\ hpc' = "sent"
    /\ UNCHANGED <<targetHeader, next, reqHeader>>
    /\ UNCHANGED <<vars, urlVars, newVars, tokVars>>

NextHdr ==
    \/ AttachHeader
    \/ Dispatch

SpecHdr == InitHdr /\ [][NextHdr]_<<vars, otherVars>>

\* the arguments attached so far
AttachedSoFar == SubSeq(targetHeader, 1, next - 1)

TenantProjection(h) ==
    {<<"X-Auth-Resource-Org", h.f1>>, <<"X-Auth-Resource-Space", h.f2>>,
     <<"X-Auth-Resource-Account", h.f3>>}

CredentialProjection(h) ==
    {<<"X-Auth-Softlayer-Username", h.f1>>, <<"X-Auth-Softlayer-APIKey", h.f2>>}

\* C13: a tenant header projected onto a request sets exactly the three
\* X-Auth-Resource-* headers to its org, space and account values and no
\* other header; an infrastructure-credential header sets exactly the two
\* X-Auth-Softlayer-* headers; both together (SetCredentials) set those five.
C13_ProjectionExact ==
    /\ (next = 2 /\ targetHeader[1] \in TargetHeaders)
       => (reqHeader = TenantProjection(targetHeader[1]) /\ Cardinality(reqHeader) = 3)
    /\ (next = 2 /\ targetHeader[1] \in SoftlayerHeaders)
       => (reqHeader = CredentialProjection(targetHeader[1]) /\ Cardinality(reqHeader) = 2)
    /\ (hpc = "sent" /\ Len(targetHeader) = 2
        /\ targetHeader[1] \in TargetHeaders /\ targetHeader[2] \in SoftlayerHeaders)
       => /\ reqHeader = TenantProjection(targetHeader[1])
                         \cup CredentialProjection(targetHeader[2])
          /\ Cardinality(reqHeader) = 5

C13_Witness ==
    /\ hpc = "sent"
    /\ targetHeader = <<HeaderValue("*ClusterTargetHeader", FALSE, "x", "y", "x"),
                        HeaderValue("*ClusterSoftlayerHeader", FALSE, "y", "x", "")>>
    /\ <<"X-Auth-Resource-Space", "y">> \in reqHeader
    /\ <<"X-Auth-Softlayer-APIKey", "x">> \in reqHeader

\* C14: a routing-header value of a type the projection does not recognize
\* adds no header, changes nothing else of the request and does not panic;
\* a call whose arguments are all of that kind is dispatched with the request
\* as it was built.
C14_UnrecognizedIgnored ==
    (\A i \in 1..(next - 1) : targetHeader[i] \in UnrecognizedHeaders)
    => /\ reqHeader = {}
       /\ hpc # "panic"
       /\ hpc = "sent" \/ ENABLED NextHdr
       /\ (hpc = "attach" /\ next <= Len(targetHeader)
           /\ targetHeader[next] \in UnrecognizedHeaders)
          => addToRequestHeader(targetHeader[next], reqHeader) = Attached(reqHeader)

C14_Witness ==
    /\ hpc = "sent"
    /\ Len(targetHeader) = 2
    /\ targetHeader[1].type = "ClusterTargetHeader"
    /\ targetHeader[2].type = "nil"
    /\ reqHeader = {}

\* the arguments a resource method can forward: a *ClusterTargetHeader, nil
\* or not, and the &ClusterSoftlayerHeader{...} SetCredentials builds
Forwardable == TargetHeaders \cup {NilTargetHeader} \cup SoftlayerHeaders

\* C20: header attachment completes without failure for every routing-header
\* argument a resource method can forward, a nil tenant-header reference
\* included: then no X-Auth-Resource-* header is set and the request is
\* still dispatched.
C20_NilTargetTolerated ==
    (\A i \in 1..(next - 1) : targetHeader[i] \in Forwardable)
    => /\ hpc # "panic"
       /\ (hpc = "sent" /\ targetHeader = <<NilTargetHeader>>) => reqHeader = {}

-----------------------------------------------------------------------------
(* Construction: NewClient, and the primitives of the client it returns *)

\* what an endpoint locator answers: an endpoint, or a failure
Resolved(ep) == [ep |-> ep, failed |-> FALSE]
ResolutionFailed == [ep |-> <<>>, failed |-> TRUE]
Answers == {Resolved(ep) : ep \in BaseURLs} \cup {ResolutionFailed}

\* a bluemix.Config: the bearer token the default headers are built from and
\* the endpoint locator it points to
Configs == [IAMAccessToken : Tokens, EndpointLocator : Locators]

\* bluemix.Config.Copy(): a new Config object holding the same field values
Copy(cfgs, from, to) ==
    [ref \in DOMAIN cfgs \cup {to} |-> IF ref = to THEN cfgs[from] ELSE cfgs[ref]]

\* http.DefaultClusterAuthHeader(config): the bearer token of the default headers
DefaultClusterAuthHeader(cfg) == cfg.IAMAccessToken

EndpointError == [kind |-> "EndpointError", status |-> 0, desc |-> "no endpoint"]
RepositoryError == [kind |-> "RepositoryError", status |-> 0, desc |-> "no repository"]

NilClient ==
    [isNil |-> TRUE, BaseURL |-> "nil", IAMTokenRefresher |-> "nil",
     config |-> "nil", HTTPClient |-> "nil"]

ConfigTaken_aliased(sessionRef) == sessionRef

\* line 55: config := s.Config.Copy() -- the Config object NewClient works on
ConfigTaken(sessionRef) == "copy"

NewClientResult_ignoresRepositoryError(endpointFailed, repositoryFailed, cfgRef) ==
    IF endpointFailed
    THEN [client |-> NilClient, err |-> EndpointError]
    ELSE [client |-> [isNil |-> FALSE, BaseURL |-> "set",
                      IAMTokenRefresher |-> IF repositoryFailed THEN "nil" ELSE "set",
                      config |-> cfgRef, HTTPClient |-> "set"],
          err |-> NoErr]

\* lines 57-84: the two error returns and the client built otherwise
NewClientResult(endpointFailed, repositoryFailed, cfgRef) ==
    IF endpointFailed
    THEN [client |-> NilClient, err |-> EndpointError]
    ELSE IF repositoryFailed
    THEN [client |-> NilClient, err |-> RepositoryError]
    ELSE [client |-> [isNil |-> FALSE, BaseURL |-> "set", IAMTokenRefresher |-> "set",
                      config |-> cfgRef, HTTPClient |-> "set"],
          err |-> NoErr]

BaseURLCall_cached(cfgRef) ==
    [answer |-> atNew.answer, locator |-> atNew.config.EndpointLocator, consulted |-> 0]

\* lines 61-64: baseURL := func() string { ep, _ := config.EndpointLocator.ContainerEndpoint(); return ep }
BaseURLCall(cfgRef) ==
    [answer |-> locators[configs[cfgRef].EndpointLocator],
     locator |-> configs[cfgRef].EndpointLocator,
     consulted |-> 1]

NoURL == [built |-> FALSE, path |-> <<>>, url |-> <<>>,
          answer |-> ResolutionFailed, locator |-> "none"]

InitNew ==
    /\ SendRequestIdle
    /\ UrlIdle
    /\ HdrIdle
    /\ TokIdle
    /\ \E c \in Configs : configs = [ref \in {"session"} |-> c]
    /\ locators \in [Locators -> Answers]
    /\ newClient = [client |-> NilClient, err |-> NoErr]
    /\ npc = "new"
    /\ consults = 0
    /\ atNew = [answer |-> ResolutionFailed, config |-> configs["session"],
                repositoryFailed |-> FALSE]
    /\ lastURL = NoURL
    /\ primitives = 0

\* lines 54-85: NewClient(s)
NewClient ==
    /\ npc = "new"
    /\ \E repositoryFailed \in BOOLEAN :
        LET ref == ConfigTaken("session")
            copied == Copy(configs, "session", ref)
            answer == locators[copied[ref].EndpointLocator]
        IN  /\ configs' = copied
            /\ consults' = consults + 1
            /\ newClient' = NewClientResult(answer.failed, repositoryFailed, ref)
            /\ atNew' = [answer |-> answer, config |-> copied[ref],
                         repositoryFailed |-> repositoryFailed]
    /\ npc' = "returned"
    /\ UNCHANGED <<locators, lastURL, primitives>>
    /\ UNCHANGED <<vars, urlVars, hdrVars, tokVars>>

\* the holder of the session assigns a field of the session's Config
MutateSession ==
    /\ npc = "returned"
    /\ \E c \in Configs :
        /\ c # configs["session"]
        /\ configs' = [configs EXCEPT !["session"] = c]
    /\ UNCHANGED <<locators, newClient, npc, consults, atNew, lastURL, primitives>>
    /\ UNCHANGED <<vars, urlVars, hdrVars, tokVars>>

\* an endpoint locator comes to answer differently: another endpoint, or a failure
ResolverChanges ==
    /\ npc = "returned"
    /\ \E l \in Locators, a \in Answers :
        /\ a # locators[l]
        /\ locators' = [locators EXCEPT ![l] = a]
    /\ UNCHANGED <<configs, newClient, npc, consults, atNew, lastURL, primitives>>
    /\ UNCHANGED <<vars, urlVars, hdrVars, tokVars>>

\* lines 159-205: a primitive of the returned client builds its request URL
Primitive ==
    /\ npc = "returned"
    /\ ~newClient.client.isNil
    /\ primitives < MaxPrimitiveCalls
    /\ \E p \in ClientPaths :
        LET call == BaseURLCall(newClient.client.config)
        IN  /\ consults' = consults + call.consulted
            /\ lastURL' = [built |-> TRUE, path |-> p,
                           url |-> url(Getter(call.answer.ep), p),
                           answer |-> locators[configs[newClient.client.config].EndpointLocator],
                           locator |-> call.locator]
    /\ primitives' = primitives + 1
    /\ UNCHANGED <<configs, locators, newClient, npc, atNew>>
    /\ UNCHANGED <<vars, urlVars, hdrVars, tokVars>>

NextNew ==
    \/ NewClient
    \/ MutateSession
    \/ ResolverChanges
    \/ Primitive

SpecNew == InitNew /\ [][NextNew]_<<vars, otherVars>>

NewReturned == npc = "returned"
ClientReturned == NewReturned /\ ~newClient.client.isNil

\* C15: NewClient returns a nil client together with the error when endpoint
\* resolution fails or when the token refresher cannot be constructed, and a
\* client it returns has its base-URL getter, token refresher, configuration
\* copy and HTTP transport all set (and comes with a nil error).
C15_NoHalfInitializedClient ==
    NewReturned
    => /\ atNew.answer.failed
          => (newClient.client = NilClient /\ newClient.err = EndpointError)
       /\ (~atNew.answer.failed /\ atNew.repositoryFailed)
          => (newClient.client = NilClient /\ newClient.err = RepositoryError)
       /\ newClient.client.isNil <=> newClient.err # NoErr
       /\ ~newClient.client.isNil
          => /\ newClient.client.BaseURL = "set"
             /\ newClient.client.IAMTokenRefresher = "set"
             /\ newClient.client.HTTPClient = "set"
             /\ newClient.client.config \in DOMAIN configs
             /\ newClient.client.config # "session"
             /\ ~atNew.answer.failed /\ ~atNew.repositoryFailed

C15_Witness ==
    /\ NewReturned
    /\ ~atNew.answer.failed
    /\ atNew.repositoryFailed
    /\ newClient.client = NilClient
    /\ newClient.err = RepositoryError

\* C16 as stated: the endpoint resolver is consulted once, at construction;
\* no primitive call consults it again, and the URL of every later request is
\* built from the endpoint resolved at construction.
C16_Original ==
    ClientReturned
    => /\ consults = 1
       /\ lastURL.built => lastURL.url = atNew.answer.ep \o cleanPath(lastURL.path)

\* C16, amended: the endpoint resolver is consulted at construction and once
\* more by every primitive call; the URL of a request is built from what the
\* resolver answers at the time of that call, a failure answered then being
\* ignored.
C16_ResolverConsultedPerCall ==
    ClientReturned
    => /\ consults = 1 + primitives
       /\ lastURL.built => lastURL.url = lastURL.answer.ep \o cleanPath(lastURL.path)

C16_Witness ==
    /\ ClientReturned
    /\ primitives = 2
    /\ consults = 3
    /\ lastURL.built
    /\ lastURL.answer # atNew.answer
    /\ lastURL.answer.failed
    /\ lastURL.url = cleanPath(lastURL.path)

\* C17: the client works on its own copy of the session's configuration:
\* whatever is assigned to the session's configuration after NewClient
\* returned, the client's configuration is the one taken at construction, and
\* so are the bearer token of its default headers and the endpoint locator its
\* base URL is asked from.
C17_ClientConfigIsACopy ==
    ClientReturned
    => /\ configs[newClient.client.config] = atNew.config
       /\ DefaultClusterAuthHeader(configs[newClient.client.config])
            = atNew.config.IAMAccessToken
       /\ lastURL.built => lastURL.locator = atNew.config.EndpointLocator

C17_Witness ==
    /\ ClientReturned
    /\ configs["session"].IAMAccessToken # atNew.config.IAMAccessToken
    /\ configs["session"].EndpointLocator # atNew.config.EndpointLocator
    /\ lastURL.built
    /\ configs[newClient.client.config] = atNew.config

-----------------------------------------------------------------------------
(* Concurrent calls on one client: the token of the retried request *)

Calls == 1..MaxConcurrent

\* IAMTokenRefresher.RefreshToken(), successful: atomically, a token not
\* issued before is obtained and stored in the configuration the refresher
\* was constructed with, which is c.config (lines 68 and 81)
RefreshedToken(n) == n + 1

RebuiltDefaultHeader_keepsOld(token, old) == old

\* line 143: restClient.DefaultHeader = http.DefaultClusterAuthHeader(c.config)
RebuiltDefaultHeader(token, old) == token

InitTok ==
    /\ SendRequestIdle
    /\ UrlIdle
    /\ HdrIdle
    /\ NewIdle
    /\ cfgToken = 1
    /\ issued = 1
    /\ tpc = [c \in Calls |-> "begin"]
    /\ defaultHeader = [c \in Calls |-> 0]
    /\ rejected = [c \in Calls |-> 0]
    /\ refreshedTo = [c \in Calls |-> 0]
    /\ retried = [c \in Calls |-> 0]

\* lines 113-116: the call builds its default headers from c.config
BuildDefaultHeader(c) ==
    /\ tpc[c] = "begin"
    /\ defaultHeader' = [defaultHeader EXCEPT ![c] = cfgToken]
    /\ tpc' = [tpc EXCEPT ![c] = "do"]
    /\ UNCHANGED <<cfgToken, issued, rejected, refreshedTo, retried>>
    /\ UNCHANGED <<vars, urlVars, hdrVars, newVars>>

\* lines 125-138: the first attempt is answered 401, or anything else
AttemptAnswered(c) ==
    /\ tpc[c] = "do"
    /\ \E unauthorized \in BOOLEAN :
        IF unauthorized
        THEN /\ rejected' = [rejected EXCEPT ![c] = defaultHeader[c]]
             /\ tpc' = [tpc EXCEPT ![c] = "refresh"]
        ELSE /\ rejected' = rejected
             /\ tpc' = [tpc EXCEPT ![c] = "done"]
    /\ UNCHANGED <<cfgToken, issued, defaultHeader, refreshedTo, retried>>
    /\ UNCHANGED <<vars, urlVars, hdrVars, newVars>>

\* lines 140-149: RefreshToken succeeds, storing a new token, or fails
TokenRefreshed(c) ==
    /\ tpc[c] = "refresh"
    /\ \E ok \in BOOLEAN :
        IF ok
        THEN /\ issued' = RefreshedToken(issued)
             /\ cfgToken' = RefreshedToken(issued)
             /\ refreshedTo' = [refreshedTo EXCEPT ![c] = RefreshedToken(issued)]
             /\ tpc' = [tpc EXCEPT ![c] = "retry"]
        ELSE /\ UNCHANGED <<issued, cfgToken, refreshedTo>>
             /\ tpc' = [tpc EXCEPT ![c] = "done"]
    /\ UNCHANGED <<defaultHeader, rejected, retried>>
    /\ UNCHANGED <<vars, urlVars, hdrVars, newVars>>

\* lines 143-144: the default headers are rebuilt from c.config and the
\* request is sent again
RetrySent(c) ==
    /\ tpc[c] = "retry"
    /\ defaultHeader' = [defaultHeader EXCEPT
                            ![c] = RebuiltDefaultHeader(cfgToken, defaultHeader[c])]
    /\ retried' = [retried EXCEPT
                      ![c] = RebuiltDefaultHeader(cfgToken, defaultHeader[c])]
    /\ tpc' = [tpc EXCEPT ![c] = "done"]
    /\ UNCHANGED <<cfgToken, issued, rejected, refreshedTo>>
    /\ UNCHANGED <<vars, urlVars, hdrVars, newVars>>

NextTok ==
    \/ \E c \in Calls : BuildDefaultHeader(c)
    \/ \E c \in Calls : AttemptAnswered(c)
    \/ \E c \in Calls : TokenRefreshed(c)
    \/ \E c \in Calls : RetrySent(c)

SpecTok == InitTok /\ [][NextTok]_<<vars, otherVars>>

====
